---- MODULE Spec2Model ----
(***************************************************************************)
(* Model of the audio enhancement screen of src/src/App.tsx: the React     *)
(* state of App, the processAudio callback (one asynchronous job per       *)
(* invocation, suspended at ffmpeg.load, fetchFile and ffmpeg.run), the    *)
(* dropzone's onDropFile handler, the option switches and the reset        *)
(* button.  The media engine (@ffmpeg/ffmpeg), fetchFile, the analytics    *)
(* call and the browser's object-URL store are the environment: each call  *)
(* into them returns or throws nondeterministically.                       *)
(*                                                                         *)
(* React commits the state updates of one synchronous stretch of a handler *)
(* together, so every action below is one such stretch: from the event (or *)
(* the resumption after an await) to the next await or return.             *)
(***************************************************************************)
EXTENDS Integers, Sequences, FiniteSets, TLC

\* ---------------------------------------------------------------- bounds
\* processAudio invocations in one behaviour
MaxRuns == 3
\* files supplied to the dropzone in one behaviour
MaxDrops == 2

\* ------------------------------------------------------------ JS values
\* `undefined` for the optional pieces of state (input, output, error): an
\* optional value is the empty tuple or a one-element tuple.
undefined == << >>
Some(x) == << x >>

\* progress : number | undefined | null
PNull == [kind |-> "null", value |-> 0]
PUndefined == [kind |-> "undefined", value |-> 0]
PNumber(n) == [kind |-> "number", value |-> n]

\* String.prototype.startsWith on strings held as tuples of characters
StartsWith(s, prefix) ==
    /\ Len(s) >= Len(prefix)
    /\ SubSeq(s, 1, Len(prefix)) = prefix

AudioPrefix == << "a", "u", "d", "i", "o", "/" >>

\* The files a user can supply: name, declared content type, size in bytes.
Files ==
    { [name |-> "a.wav", type |-> << "a", "u", "d", "i", "o", "/", "w", "a", "v" >>, size |-> 2048],
      [name |-> "b.mp3", type |-> << "a", "u", "d", "i", "o", "/", "m", "p", "3" >>, size |-> 1000],
      [name |-> "c.txt", type |-> << "t", "e", "x", "t", "/", "p", "l", "a", "i", "n" >>, size |-> 10],
      [name |-> "d.bin", type |-> << "a", "u", "d", "i", "o" >>, size |-> 10] }

OutputFormats == { "mp3", "ogg", "wav", "flac" }

\* Values a rejected promise or a throw can carry into the catch clause.
Thrown ==
    { [isObject |-> TRUE,  hasMessage |-> TRUE,  messageType |-> "string", message |-> "ffmpeg failed"],
      [isObject |-> TRUE,  hasMessage |-> TRUE,  messageType |-> "string", message |-> ""],
      [isObject |-> TRUE,  hasMessage |-> TRUE,  messageType |-> "number", message |-> "1"],
      [isObject |-> TRUE,  hasMessage |-> FALSE, messageType |-> "undefined", message |-> ""],
      [isObject |-> FALSE, hasMessage |-> FALSE, messageType |-> "undefined", message |-> ""] }

\* Lengths of the bytes FS("readFile") can return.
DataLengths == { 0, 512, 3000 }

\* Ratios the engine's progress callback reports, in tenths (0, 0.5, 1).
RatioTenths == { 0, 5, 10 }

\* Values of Date.now() at the time the output file name is formed.
Timestamps == { 1700 }

\* The fixed message of lines 125 and 151 ("an error occurred during
\* processing, see the console"), transliterated to ASCII.
FallbackMessage == "processing error, see console"


\* -------------------------------------------------------- pure functions

\* Math.floor(Math.log(bytes) / Math.log(1024)) for bytes >= 1
RECURSIVE SizeIndex(_)
SizeIndex(bytes) == IF bytes < 1024 THEN 0 ELSE 1 + SizeIndex(bytes \div 1024)

RECURSIVE Pow1024(_)
Pow1024(i) == IF i = 0 THEN 1 ELSE 1024 * Pow1024(i - 1)

SizeUnits == << "Bytes", "KB", "MB", "GB" >>

\* formatFileSize: the value to one decimal (toFixed(1), half rounded up),
\* printed the way parseFloat prints it (no trailing ".0"), then the unit;
\* sizes[i] is undefined from 1024^4 bytes on.
formatFileSize(bytes) ==
    IF bytes = 0 THEN "0 Bytes"
    ELSE LET i == SizeIndex(bytes)
             k == Pow1024(i)
             tenths == (bytes * 20 + k) \div (2 * k)
             number == IF tenths % 10 = 0
                       THEN ToString(tenths \div 10)
                       ELSE ToString(tenths \div 10) \o "." \o ToString(tenths % 10)
             unit == IF i + 1 <= Len(SizeUnits) THEN SizeUnits[i + 1] ELSE "undefined"
         IN  number \o " " \o unit

\* Math.round(((original - processed) / original) * 100) for original > 0
\* (Math.round rounds a half towards +Infinity)
CompressionRatio(originalSizeBytes, processedSizeBytes) ==
    (200 * (originalSizeBytes - processedSizeBytes) + originalSizeBytes)
        \div (2 * originalSizeBytes)

\* Array.prototype.join(",")
RECURSIVE Join(_)
Join(parts) ==
    IF parts = << >> THEN ""
    ELSE IF Len(parts) = 1 THEN parts[1]
    ELSE parts[1] \o "," \o Join(Tail(parts))

NormalizeFilter == "dynaudnorm=g=20:f=150:p=0.95"
DenoiseFilter == "anlmdn=s=0.3:p=0.001"
EqualizerFilter == "equalizer=f=5000:t=q:w=2:g=-5"

\* filterComplex with the last two pushes in the other order
filterComplex_Swapped(nv, rn, rh) ==
    LET f1 == IF nv THEN << NormalizeFilter >> ELSE << >>
        f2 == IF rh THEN Append(f1, EqualizerFilter) ELSE f1
        f3 == IF rn THEN Append(f2, DenoiseFilter) ELSE f2
    IN  f3

\* let filterComplex = []; three conditional pushes
filterComplex(nv, rn, rh) ==
    LET f1 == IF nv THEN << NormalizeFilter >> ELSE << >>
        f2 == IF rn THEN Append(f1, DenoiseFilter) ELSE f1
        f3 == IF rh THEN Append(f2, EqualizerFilter) ELSE f2
    IN  f3

\* the encoder parameters pushed for the selected format
EncoderArgs(format) ==
    IF format = "mp3" THEN << "-b:a", "192k" >>
    ELSE IF format = "ogg" THEN << "-q:a", "6" >>
    ELSE IF format = "flac" THEN << "-compression_level", "8" >>
    ELSE << >>

\* const ffmpegCommands = ["-i", name]; ... ffmpegCommands.push(outputFilename)
ffmpegCommands(name, nv, rn, rh, mono, format, outputFilename) ==
    LET filters == filterComplex(nv, rn, rh)
        c1 == << "-i", name >>
        c2 == IF Len(filters) > 0 THEN c1 \o << "-af", Join(filters) >> ELSE c1
        c3 == IF mono THEN c2 \o << "-ac", "1" >> ELSE c2
        c4 == c3 \o EncoderArgs(format)
    IN  Append(c4, outputFilename)

\* `${name}_processed_${Date.now()}.${outputFormat}`
OutputFilename(name, now, format) ==
    name \o "_processed_" \o ToString(now) \o "." \o format

\* The message the catch clause stores for a caught value.
ErrorMessage(e) ==
    IF e.isObject /\ e.hasMessage /\ e.messageType = "string"
    THEN e.message
    ELSE FallbackMessage

\* Errors the engine library itself throws.
NoLoadError ==
    [isObject |-> TRUE, hasMessage |-> TRUE, messageType |-> "string",
     message |-> "ffmpeg.wasm is not ready, make sure you have completed load()."]
BusyError ==
    [isObject |-> TRUE, hasMessage |-> TRUE, messageType |-> "string",
     message |-> "ffmpeg.wasm can only run one command at a time"]


\* ------------------------------------------------------------------ state
VARIABLES
    input,                  \* useState: undefined or Some([file, url])
    progress,               \* useState: PNull, PUndefined or PNumber(n)
    error,                  \* useState: undefined or Some(message)
    outputFormat,           \* useState: "ogg" initially
    isProcessing,           \* useState
    originalSize,           \* useState: display string
    processedSize,          \* useState: display string
    compressionRatio,       \* useState: number
    normalizeVolume,        \* useState
    reduceNoise,            \* useState
    reduceHarshFrequencies, \* useState
    convertToMono,          \* useState
    output,                 \* useState: undefined or Some([url, name])
    ffmpegLoaded,           \* the engine: ffmpeg.isLoaded()
    ffmpegRunning,          \* the engine: a command is executing
    fsFiles,                \* the engine: names written with FS("writeFile")
    jobs,                   \* processAudio invocations suspended at an await
    runs,                   \* processAudio invocations so far
    drops,                  \* files supplied to the dropzone so far
    inputUrls,              \* object URLs created for inputs, never revoked
    artifactUrls,           \* object URLs created for outputs, never revoked
    loadsSucceeded,         \* ffmpeg.load() calls that resolved
    uncaught,               \* a processAudio promise rejected
    lastEnd                 \* how the latest processAudio invocation ended

uiVars == << input, progress, error, outputFormat, isProcessing, originalSize,
             processedSize, compressionRatio, output >>
optionVars == << normalizeVolume, reduceNoise, reduceHarshFrequencies, convertToMono >>
engineVars == << ffmpegLoaded, ffmpegRunning, fsFiles >>
historyVars == << runs, drops, inputUrls, artifactUrls, loadsSucceeded, uncaught, lastEnd >>
vars == << uiVars, optionVars, engineVars, jobs, historyVars >>

NotEnded == [how |-> "none", at |-> "none", staged |-> FALSE, executed |-> FALSE]

\* The state after the first render (useState initial values, createFFmpeg).
Init ==
    /\ input = undefined
    /\ progress = PNull
    /\ error = undefined
    /\ outputFormat = "ogg"
    /\ isProcessing = FALSE
    /\ originalSize = ""
    /\ processedSize = ""
    /\ compressionRatio = 0
    /\ normalizeVolume = FALSE
    /\ reduceNoise = FALSE
    /\ reduceHarshFrequencies = FALSE
    /\ convertToMono = FALSE
    /\ output = undefined
    /\ ffmpegLoaded = FALSE
    /\ ffmpegRunning = FALSE
    /\ fsFiles = {}
    /\ jobs = {}
    /\ runs = 0
    /\ drops = 0
    /\ inputUrls = 0
    /\ artifactUrls = 0
    /\ loadsSucceeded = 0
    /\ uncaught = FALSE
    /\ lastEnd = NotEnded

\* ------------------------------------------------------- what is rendered
\* The options panel (switches, format select, run button) is rendered only
\* when an input is present.
OptionsPanelShown == input # undefined
\* the run button without its disabled attribute
RunButtonEnabled_NeverDisabled == OptionsPanelShown

\* <Button onClick={processAudio} disabled={isProcessing}>
RunButtonEnabled == OptionsPanelShown /\ ~isProcessing
\* {!!output && ( ... result card and the reset button ... )}
ResultCardShown == output # undefined
\* {progress !== null && progress !== 100 && ( ... progress bar ... )}
ProgressBarShown == OptionsPanelShown /\ progress # PNull /\ progress # PNumber(100)
\* {!!error && ( ... )}
ErrorShown == OptionsPanelShown /\ error # undefined /\ error[1] # ""

\* ------------------------------------------------------------ processAudio
\* ffmpeg.load() called without asking ffmpeg.isLoaded()
NeedsLoad_Always == TRUE

\* if (!ffmpeg.isLoaded()) await ffmpeg.load();
NeedsLoad == ~ffmpegLoaded

Ended(j, how, at) ==
    [how |-> how, at |-> at, staged |-> j.staged, executed |-> j.executed]

\* catch (error) { setProgress(null); setIsProcessing(false); setError(...) }
Catch(j, e, at) ==
    /\ progress' = PNull
    /\ isProcessing' = FALSE
    /\ error' = Some(ErrorMessage(e))
    /\ jobs' = jobs \ {j}
    /\ lastEnd' = Ended(j, "threw", at)

\* logEvent(getAnalytics(firebaseApp), "process_audio") throws: it is called
\* before the try block, so the promise of processAudio rejects.
TelemetryThrows ==
    /\ uncaught' = TRUE
    /\ lastEnd' = [NotEnded EXCEPT !.how = "uncaught", !.at = "telemetry"]
    /\ UNCHANGED << uiVars, optionVars, engineVars, jobs, inputUrls, artifactUrls,
                    loadsSucceeded >>

\* The six state resets at the top of the try block, then if (!input) return.
RunWithoutInput ==
    /\ input = undefined
    /\ isProcessing' = FALSE
    /\ progress' = PUndefined
    /\ error' = undefined
    /\ output' = undefined
    /\ processedSize' = ""
    /\ compressionRatio' = 0
    /\ lastEnd' = [NotEnded EXCEPT !.how = "noinput", !.at = "guard"]
    /\ UNCHANGED << input, outputFormat, originalSize, optionVars, engineVars, jobs,
                    inputUrls, artifactUrls, loadsSucceeded, uncaught >>

\* The same resets with an input present, up to the first await: ffmpeg.load()
\* when the engine is not loaded, else fetchFile(input.file).  The callback
\* reads input, the switches and the format from the render it was made in.
RunWithInput ==
    /\ input # undefined
    /\ isProcessing' = TRUE
    /\ progress' = PUndefined
    /\ error' = undefined
    /\ output' = undefined
    /\ processedSize' = ""
    /\ compressionRatio' = 0
    /\ originalSize' = formatFileSize(input[1].file.size)
    /\ jobs' = jobs \cup
         { [id |-> runs + 1,
            pc |-> IF NeedsLoad THEN "load" ELSE "fetch",
            file |-> input[1].file,
            normalizeVolume |-> normalizeVolume,
            reduceNoise |-> reduceNoise,
            reduceHarshFrequencies |-> reduceHarshFrequencies,
            convertToMono |-> convertToMono,
            outputFormat |-> outputFormat,
            outputFilename |-> "",
            commands |-> << >>,
            staged |-> FALSE,
            executed |-> FALSE] }
    /\ UNCHANGED << input, outputFormat, optionVars, engineVars, inputUrls,
                    artifactUrls, loadsSucceeded, uncaught, lastEnd >>

\* One invocation of processAudio, up to its first await or return.
processAudio ==
    /\ runs < MaxRuns
    /\ runs' = runs + 1
    /\ drops' = drops
    /\ \/ TelemetryThrows
       \/ RunWithoutInput
       \/ RunWithInput

\* A click on the run button.
RunClick ==
    /\ RunButtonEnabled
    /\ processAudio

\* await ffmpeg.load() resolves; fetchFile(input.file) is called next.
LoadResolves(j) ==
    /\ j.pc = "load"
    /\ ffmpegLoaded' = TRUE
    /\ loadsSucceeded' = loadsSucceeded + 1
    /\ jobs' = (jobs \ {j}) \cup { [j EXCEPT !.pc = "fetch"] }
    /\ UNCHANGED << uiVars, optionVars, ffmpegRunning, fsFiles, runs, drops,
                    inputUrls, artifactUrls, uncaught, lastEnd >>

\* a rejected load swallowed (ffmpeg.load().catch(() => {})): the job goes on
LoadRejects_Swallowed(j, e) ==
    /\ j.pc = "load"
    /\ jobs' = (jobs \ {j}) \cup { [j EXCEPT !.pc = "fetch"] }
    /\ UNCHANGED << uiVars, optionVars, engineVars, historyVars >>

\* await ffmpeg.load() rejects.
LoadRejects(j, e) ==
    /\ j.pc = "load"
    /\ Catch(j, e, "load")
    /\ UNCHANGED << input, outputFormat, originalSize, processedSize,
                    compressionRatio, output, optionVars, engineVars, runs, drops,
                    inputUrls, artifactUrls, loadsSucceeded, uncaught >>

\* await fetchFile(input.file) rejects.
FetchRejects(j, e) ==
    /\ j.pc = "fetch"
    /\ Catch(j, e, "fetch")
    /\ UNCHANGED << input, outputFormat, originalSize, processedSize,
                    compressionRatio, output, optionVars, engineVars, runs, drops,
                    inputUrls, artifactUrls, loadsSucceeded, uncaught >>

\* await fetchFile resolves and ffmpeg.FS("writeFile", ...) throws: the engine
\* is not loaded, or the write itself fails.
WriteFileThrows(j, e) ==
    /\ j.pc = "fetch"
    /\ IF ffmpegLoaded THEN TRUE ELSE e = NoLoadError
    /\ Catch(j, e, "writeFile")
    /\ UNCHANGED << input, outputFormat, originalSize, processedSize,
                    compressionRatio, output, optionVars, engineVars, runs, drops,
                    inputUrls, artifactUrls, loadsSucceeded, uncaught >>

\* await fetchFile resolves, the input is written, the command is built and
\* ffmpeg.run(...ffmpegCommands) is called.  The engine runs one command at a
\* time: a second run() throws.
StageAndRun(j, now) ==
    /\ j.pc = "fetch"
    /\ ffmpegLoaded
    /\ fsFiles' = fsFiles \cup { j.file.name }
    /\ LET outputFilename == OutputFilename(j.file.name, now, j.outputFormat)
           commands == ffmpegCommands(j.file.name, j.normalizeVolume, j.reduceNoise,
                                      j.reduceHarshFrequencies, j.convertToMono,
                                      j.outputFormat, outputFilename)
       IN  IF ffmpegRunning
           THEN /\ progress' = PNull
                /\ isProcessing' = FALSE
                /\ error' = Some(ErrorMessage(BusyError))
                /\ jobs' = jobs \ {j}
                /\ lastEnd' = Ended([j EXCEPT !.staged = TRUE], "threw", "run")
                /\ UNCHANGED << ffmpegRunning >>
           ELSE /\ ffmpegRunning' = TRUE
                /\ jobs' = (jobs \ {j}) \cup
                     { [j EXCEPT !.pc = "run", !.staged = TRUE, !.executed = TRUE,
                                 !.outputFilename = outputFilename,
                                 !.commands = commands] }
                /\ UNCHANGED << progress, isProcessing, error, lastEnd >>
    /\ UNCHANGED << input, outputFormat, originalSize, processedSize,
                    compressionRatio, output, optionVars, ffmpegLoaded, runs, drops,
                    inputUrls, artifactUrls, loadsSucceeded, uncaught >>

\* progress: ({ ratio }) => setProgress(ratio * 100), while a command runs
ProgressCallback(j, tenths) ==
    /\ j.pc = "run"
    /\ progress' = PNumber(tenths * 10)
    /\ UNCHANGED << input, error, outputFormat, isProcessing, originalSize,
                    processedSize, compressionRatio, output, optionVars, engineVars,
                    jobs, historyVars >>

\* await ffmpeg.run(...) rejects.
RunRejects(j, e) ==
    /\ j.pc = "run"
    /\ ffmpegRunning' = FALSE
    /\ Catch(j, e, "run")
    /\ UNCHANGED << input, outputFormat, originalSize, processedSize,
                    compressionRatio, output, optionVars, ffmpegLoaded, fsFiles, runs,
                    drops, inputUrls, artifactUrls, loadsSucceeded, uncaught >>

\* await ffmpeg.run(...) resolves and FS("readFile", outputFilename) throws.
ReadFileThrows(j, e) ==
    /\ j.pc = "run"
    /\ ffmpegRunning' = FALSE
    /\ Catch(j, e, "readFile")
    /\ UNCHANGED << input, outputFormat, originalSize, processedSize,
                    compressionRatio, output, optionVars, ffmpegLoaded, fsFiles, runs,
                    drops, inputUrls, artifactUrls, loadsSucceeded, uncaught >>

\* the empty-output return without setIsProcessing(false)
EmptyOutput_KeepsProcessing(j) ==
    /\ error' = Some(FallbackMessage)
    /\ jobs' = jobs \ {j}
    /\ lastEnd' = Ended(j, "empty", "readFile")
    /\ UNCHANGED << isProcessing, progress, originalSize, processedSize,
                    compressionRatio, output, artifactUrls >>

\* if (!data.length) { setError(...); setIsProcessing(false); return; }
EmptyOutput(j) ==
    /\ error' = Some(FallbackMessage)
    /\ isProcessing' = FALSE
    /\ jobs' = jobs \ {j}
    /\ lastEnd' = Ended(j, "empty", "readFile")
    /\ UNCHANGED << progress, originalSize, processedSize, compressionRatio, output,
                    artifactUrls >>

\* The success path: sizes, ratio, the artifact's object URL, setOutput.
Succeed(j, length) ==
    /\ processedSize' = formatFileSize(length)
    /\ compressionRatio' = CompressionRatio(j.file.size, length)
    /\ artifactUrls' = artifactUrls + 1
    /\ output' = Some([url |-> "blob:output-" \o ToString(artifactUrls + 1),
                       name |-> j.outputFilename])
    /\ isProcessing' = FALSE
    /\ jobs' = jobs \ {j}
    /\ lastEnd' = Ended(j, "succeeded", "done")
    /\ UNCHANGED << progress, error, originalSize >>

\* await ffmpeg.run(...) resolves and the output file is read.
RunResolves(j, length) ==
    /\ j.pc = "run"
    /\ ffmpegRunning' = FALSE
    /\ IF length = 0 THEN EmptyOutput(j) ELSE Succeed(j, length)
    /\ UNCHANGED << input, outputFormat, optionVars, ffmpegLoaded, fsFiles, runs,
                    drops, inputUrls, loadsSucceeded, uncaught >>


\* ------------------------------------------------------------ UI handlers
\* onDropFile: six resets, then the content-type check.  An accepted file
\* becomes the input, with a fresh object URL.
onDropFile(file) ==
    /\ drops < MaxDrops
    /\ drops' = drops + 1
    /\ progress' = PNull
    /\ error' = undefined
    /\ output' = undefined
    /\ processedSize' = ""
    /\ compressionRatio' = 0
    /\ IF StartsWith(file.type, AudioPrefix)
       THEN /\ inputUrls' = inputUrls + 1
            /\ input' = Some([file |-> file,
                              url |-> "blob:input-" \o ToString(inputUrls + 1)])
            /\ originalSize' = formatFileSize(file.size)
       ELSE /\ originalSize' = ""
            /\ UNCHANGED << input, inputUrls >>
    /\ UNCHANGED << outputFormat, isProcessing, optionVars, engineVars, jobs, runs,
                    artifactUrls, loadsSucceeded, uncaught, lastEnd >>

\* <Switch checked={normalizeVolume} onCheckedChange={setNormalizeVolume} />
SetNormalizeVolume ==
    /\ OptionsPanelShown
    /\ normalizeVolume' = ~normalizeVolume
    /\ UNCHANGED << uiVars, reduceNoise, reduceHarshFrequencies, convertToMono,
                    engineVars, jobs, historyVars >>

SetReduceNoise ==
    /\ OptionsPanelShown
    /\ reduceNoise' = ~reduceNoise
    /\ UNCHANGED << uiVars, normalizeVolume, reduceHarshFrequencies, convertToMono,
                    engineVars, jobs, historyVars >>

SetReduceHarshFrequencies ==
    /\ OptionsPanelShown
    /\ reduceHarshFrequencies' = ~reduceHarshFrequencies
    /\ UNCHANGED << uiVars, normalizeVolume, reduceNoise, convertToMono,
                    engineVars, jobs, historyVars >>

SetConvertToMono ==
    /\ OptionsPanelShown
    /\ convertToMono' = ~convertToMono
    /\ UNCHANGED << uiVars, normalizeVolume, reduceNoise, reduceHarshFrequencies,
                    engineVars, jobs, historyVars >>

\* <Select value={outputFormat} onValueChange={setOutputFormat}>
SetOutputFormat(format) ==
    /\ OptionsPanelShown
    /\ format # outputFormat
    /\ outputFormat' = format
    /\ UNCHANGED << input, progress, error, isProcessing, originalSize,
                    processedSize, compressionRatio, output, optionVars, engineVars,
                    jobs, historyVars >>

\* The reset button of the result card.
Reset ==
    /\ ResultCardShown
    /\ input' = undefined
    /\ output' = undefined
    /\ progress' = PNull
    /\ error' = undefined
    /\ originalSize' = ""
    /\ processedSize' = ""
    /\ compressionRatio' = 0
    /\ UNCHANGED << outputFormat, isProcessing, optionVars, engineVars, jobs,
                    historyVars >>

\* ------------------------------------------------------- specifications
\* The job lifecycle: every handler and every engine outcome, with the
\* switches and the format left as first rendered (no step of the lifecycle
\* reads them except to build the command line).
Next ==
    \/ RunClick
    \/ \E j \in jobs : LoadResolves(j)
    \/ \E j \in jobs, e \in Thrown : LoadRejects(j, e)
    \/ \E j \in jobs, e \in Thrown : FetchRejects(j, e)
    \/ \E j \in jobs, e \in Thrown \cup { NoLoadError } : WriteFileThrows(j, e)
    \/ \E j \in jobs, now \in Timestamps : StageAndRun(j, now)
    \/ \E j \in jobs, tenths \in RatioTenths : ProgressCallback(j, tenths)
    \/ \E j \in jobs, e \in Thrown : RunRejects(j, e)
    \/ \E j \in jobs, e \in Thrown : ReadFileThrows(j, e)
    \/ \E j \in jobs, length \in DataLengths : RunResolves(j, length)
    \/ \E file \in Files : onDropFile(file)
    \/ Reset

Spec == Init /\ [][Next]_vars

\* Building the command line: the switches and the format change at any time
\* an input is present, and jobs run up to the call of ffmpeg.run.
NextPlan ==
    \/ RunClick
    \/ \E j \in jobs : LoadResolves(j)
    \/ \E j \in jobs, now \in Timestamps : StageAndRun(j, now)
    \/ \E file \in Files : onDropFile(file)
    \/ SetNormalizeVolume
    \/ SetReduceNoise
    \/ SetReduceHarshFrequencies
    \/ SetConvertToMono
    \/ \E format \in OutputFormats : SetOutputFormat(format)

SpecPlan == Init /\ [][NextPlan]_vars

\* processAudio called with no input present.  The rendered run button exists
\* only with an input, so this is a call from elsewhere: the case the guard
\* if (!input) of processAudio is written for.
RunWithoutButton ==
    /\ ~OptionsPanelShown
    /\ processAudio

NextCall ==
    \/ Next
    \/ RunWithoutButton

SpecCall == Init /\ [][NextCall]_vars

\* A suspended processAudio invocation resumes: the promise it awaits
\* (ffmpeg.load, fetchFile, ffmpeg.run) settles and the code after the await
\* runs to the next await or to the return.
JobStep ==
    \/ \E j \in jobs : LoadResolves(j)
    \/ \E j \in jobs, e \in Thrown : LoadRejects(j, e)
    \/ \E j \in jobs, e \in Thrown : FetchRejects(j, e)
    \/ \E j \in jobs, e \in Thrown \cup { NoLoadError } : WriteFileThrows(j, e)
    \/ \E j \in jobs, now \in Timestamps : StageAndRun(j, now)
    \/ \E j \in jobs, e \in Thrown : RunRejects(j, e)
    \/ \E j \in jobs, e \in Thrown : ReadFileThrows(j, e)
    \/ \E j \in jobs, length \in DataLengths : RunResolves(j, length)

\* The lifecycle with every awaited engine operation eventually settling.
SpecFair == Spec /\ WF_vars(JobStep)


\* ------------------------------------------------------------ properties
\* A step in which a processAudio invocation that was suspended returns.
JobEnds == jobs # {} /\ jobs' # jobs /\ jobs' \subseteq jobs
\* ... and returns in failure: the catch clause or the empty-output return.
JobFails == JobEnds /\ lastEnd'.how \in { "threw", "empty" }

\* C1: single-flight.  At most one processAudio invocation is live at any
\* time, the engine executes a command exactly when that invocation awaits
\* ffmpeg.run, isProcessing is true exactly while it is live, and no later
\* invocation was accepted since it started (its id is the latest one).
C1_SingleFlight ==
    /\ Cardinality(jobs) <= 1
    /\ isProcessing <=> jobs # {}
    /\ ffmpegRunning <=> (\E j \in jobs : j.pc = "run")
    /\ \A j \in jobs : j.id = runs

\* C1 witness: a second job (started after an earlier one ended) is executing
\* while the run button is rendered, with room for further invocations.
C1_Witness ==
    /\ OptionsPanelShown
    /\ isProcessing
    /\ runs < MaxRuns
    /\ \E j \in jobs : j.pc = "run" /\ j.id = 2

\* The stages a plan must hold for the switches a job captured: the enabled
\* ones among normalize, denoise, equalizer, in that order.
ExpectedStages(j) ==
    LET canonical == << [on |-> j.normalizeVolume, stage |-> NormalizeFilter],
                        [on |-> j.reduceNoise, stage |-> DenoiseFilter],
                        [on |-> j.reduceHarshFrequencies, stage |-> EqualizerFilter] >>
        IsOn(s) == s.on
        kept == SelectSeq(canonical, IsOn)
    IN  [i \in 1..Len(kept) |-> kept[i].stage]

Positions(args, flag) == { i \in 1..Len(args) : args[i] = flag }

PlanMatches(j) ==
    LET args == j.commands
        stages == ExpectedStages(j)
        af == Positions(args, "-af")
        ac == Positions(args, "-ac")
    IN  /\ Len(args) >= 3
        /\ args[1] = "-i"
        /\ args[2] = j.file.name
        /\ args[Len(args)] = j.outputFilename
        /\ Cardinality(af) = (IF stages = << >> THEN 0 ELSE 1)
        /\ \A i \in af : i = 3 /\ args[i + 1] = Join(stages)
        /\ \A s \in { NormalizeFilter, DenoiseFilter, EqualizerFilter } :
               \A i \in 1..Len(args) : args[i] = s => stages = << s >> /\ i = 4
        /\ Cardinality(ac) = (IF j.convertToMono THEN 1 ELSE 0)
        /\ \A i \in ac : args[i + 1] = "1" /\ \A k \in af : k < i

\* C2: for every combination of the switches and every format, the command
\* line passed to ffmpeg.run holds one "-af" argument joining exactly the
\* enabled stages in the order normalize, denoise, equalizer (none when no
\* stage is enabled), and "-ac 1" exactly when convertToMono is set.
C2_PlanFollowsToggles ==
    \A j \in jobs : j.pc = "run" => PlanMatches(j)

\* C2 witness: a command built with all three stages and the mono override,
\* for a format other than the default, while the switches shown have since
\* been changed.
C2_Witness ==
    \E j \in jobs :
        /\ j.pc = "run"
        /\ j.normalizeVolume /\ j.reduceNoise /\ j.reduceHarshFrequencies
        /\ j.convertToMono
        /\ j.outputFormat = "flac"
        /\ ~reduceNoise

\* C3: whenever a job ends in failure the state is Failed: an error is set,
\* there is no output artifact and progress is reset to null.
C3_FailureClearsProgress ==
    [][JobFails => (error' # undefined /\ output' = undefined /\ progress' = PNull)]_vars

\* C4: whenever a job ends in failure the stored error message is a
\* non-empty string.
C4_ErrorMessageNonEmpty ==
    [][JobFails => (error' # undefined /\ error'[1] # "")]_vars

\* C5: the input is staged and the command executed only with the engine
\* loaded; a job whose load was rejected ends in the catch clause having
\* neither written its input nor called ffmpeg.run.
C5_NoStagingWithoutLoad ==
    /\ \A j \in jobs : (j.pc \in { "fetch", "run" } \/ j.staged \/ j.executed) => ffmpegLoaded
    /\ fsFiles # {} => ffmpegLoaded
    /\ ffmpegRunning => ffmpegLoaded
    /\ lastEnd.at = "load" => lastEnd.how = "threw" /\ ~lastEnd.staged /\ ~lastEnd.executed
    /\ (lastEnd.staged \/ lastEnd.executed) => ffmpegLoaded

\* C5 witness: a job has just failed on a rejected load: Failed state, engine
\* not loaded, nothing written to its file system.
C5_Witness ==
    /\ lastEnd.at = "load"
    /\ ~isProcessing /\ jobs = {}
    /\ error # undefined
    /\ ~ffmpegLoaded
    /\ fsFiles = {}

\* C6: the engine is loaded at most once: at most one load succeeds, no load
\* is in flight once the engine is loaded, and never two at the same time.
C6_LoadAtMostOnce ==
    /\ loadsSucceeded <= 1
    /\ ffmpegLoaded <=> loadsSucceeded = 1
    /\ ffmpegLoaded => \A j \in jobs : j.pc # "load"
    /\ Cardinality({ j \in jobs : j.pc = "load" }) <= 1

\* C6 witness: a retry after a job that failed with the engine loaded, now
\* past the load step without a second load, for a different input.
C6_Witness ==
    /\ loadsSucceeded = 1
    /\ lastEnd.how = "threw" /\ lastEnd.staged
    /\ \E j \in jobs : j.id >= 2 /\ j.pc = "fetch" /\ j.file.name \notin fsFiles

\* C7: after any sequence of runs at most one artifact object URL that was
\* created is unreleased.
C7_AtMostOneArtifactUrl ==
    artifactUrls <= 1

\* C8: the reset button, pressed in a Succeeded state, returns exactly to
\* Idle and releases the artifact's object URL.
C8_ResetReturnsToIdle ==
    [][(Reset /\ ~isProcessing) =>
          /\ input' = undefined
          /\ output' = undefined
          /\ error' = undefined
          /\ progress' = PNull
          /\ originalSize' = "" /\ processedSize' = "" /\ compressionRatio' = 0
          /\ ~isProcessing'
          /\ artifactUrls' = 0]_vars

\* C9: processAudio called with no input present changes neither progress,
\* error, output nor isProcessing, and calls nothing of the engine.
C9_RunWithoutInputIsNoOp ==
    [][(input = undefined /\ runs' = runs + 1) =>
          /\ progress' = progress
          /\ error' = error
          /\ output' = output
          /\ isProcessing' = isProcessing
          /\ jobs' = jobs
          /\ UNCHANGED engineVars]_vars

\* A finished job's state is on display: Succeeded or Failed.
JobTerminal == ~isProcessing /\ (output # undefined \/ error # undefined)

\* C10: a file whose content type does not begin with "audio/", supplied
\* while a Succeeded or Failed job is on display, neither replaces the input
\* nor changes progress, error, output or the sizes.
C10_RejectedDropKeepsJobState ==
    [][(JobTerminal /\ drops' = drops + 1 /\ inputUrls' = inputUrls) =>
          /\ input' = input
          /\ progress' = progress
          /\ error' = error
          /\ output' = output
          /\ originalSize' = originalSize
          /\ processedSize' = processedSize
          /\ compressionRatio' = compressionRatio]_vars

\* C11: a click on the run button always starts the job, whatever the
\* analytics call does: the invocation goes on to load the engine or fetch
\* the input, and its promise does not reject.
C11_TelemetryNeverFailsJob ==
    [][(RunButtonEnabled /\ runs' = runs + 1) =>
          /\ isProcessing'
          /\ \E j \in jobs' : j.id = runs' /\ j.pc \in { "load", "fetch" }
          /\ ~uncaught']_vars

\* C12: with every awaited engine operation eventually settling, a job that
\* set isProcessing eventually clears it, leaving an output artifact or an
\* error set and the run button enabled again.
C12_JobTerminates ==
    isProcessing ~> (~isProcessing /\ jobs = {} /\ RunButtonEnabled
                     /\ (output # undefined \/ error # undefined))

\* C12 witness: a job has succeeded and a later run, the third invocation,
\* has been accepted and is executing.
C12_Witness ==
    /\ lastEnd.how = "succeeded"
    /\ artifactUrls = 1
    /\ \E j \in jobs : j.id = 3 /\ j.pc = "run"

\* The output file names a job for the file called name can produce.
ArtifactNamesOf(name) ==
    { OutputFilename(name, now, format) : now \in Timestamps, format \in OutputFormats }

\* C13: whenever an output artifact is shown, an input is present, the
\* artifact was produced from that input, and the original size and the
\* compression ratio on display are those of that input.
C13_ArtifactMatchesInput ==
    output # undefined =>
        /\ input # undefined
        /\ output[1].name \in ArtifactNamesOf(input[1].file.name)
        /\ originalSize = formatFileSize(input[1].file.size)
        /\ \E length \in DataLengths :
               /\ processedSize = formatFileSize(length)
               /\ compressionRatio = CompressionRatio(input[1].file.size, length)

====
